---------------------------- MODULE Spec2Model ----------------------------
(***************************************************************************)
(* One Session of the gateway (src/node/session.go) and the goroutines     *)
(* that act on it: the goroutine running NewSession and then ReadMessages, *)
(* the writer (SendMessages), the ping timer callback (sendPing), the      *)
(* producers calling Send, and the node closing the session on shutdown.   *)
(*                                                                         *)
(* Every goroutine has a call stack of activation records; an action is    *)
(* one step of the function on top of a stack.  A critical section of      *)
(* sendFrame, Disconnect, Close and addPing (Lock() to Unlock(), a few     *)
(* assignments) is one step, enabled when the mutex is free.  Session.write*)
(* holds the mutex across a blocking connection write: its Lock() is a     *)
(* step and the write with the Unlock() is the next, so the mutex is seen  *)
(* held in between.  utils.CloseWS is a step that runs without the mutex.  *)
(* A call made from outside the session (Send by a producer, Disconnect by *)
(* the reader on a read error, Close by the node) that finds the mutex     *)
(* free runs its first critical section in the step of the call: the call  *)
(* changes nothing another goroutine can see, so calling and then waiting  *)
(* with the mutex free is the same as calling later.  A call that finds    *)
(* the mutex held leaves the caller waiting in Lock().                     *)
(***************************************************************************)
EXTENDS Integers, Sequences, FiniteSets, TLC

\* ------------------------------------------------------------------ bounds
\* Capacity of the outbound channel in the model.  The program allocates
\* make(chan sentFrame, 256) (session.go:90); the model keeps the same
\* non-blocking select over a smaller buffer so that "full" is reachable.
QueueCap == 1
\* Capacity of the channel where the order of several queued frames is
\* looked at: as many frames as Send calls can wait in it together.
WideCap == 2
\* Send calls made over the life of the session (transmissions included).
MaxSends == 2
\* Firings of the ping timer.
MaxPings == 1
\* Enqueue calls on the DisconnectQueue (one session each).
MaxTasks == 3
\* Shutdown calls on the DisconnectQueue.
MaxShutdowns == 2
\* Sessions and streams of the Hub.
NumSessions == 3
NumStreams == 3

\* --------------------------------------------------------- program constants
CloseNormalClosure == 1000
CloseGoingAway == 1001
CloseNoStatusReceived == 1005
CloseAbnormalClosure == 1006
CloseInternalServerErr == 1011

expectedCloseStatuses == {CloseNormalClosure, CloseGoingAway, CloseNoStatusReceived}

textFrame == 0
closeFrame == 1

\* Goroutines: "main" runs NewSession and then ReadMessages (and, inside
\* HandleCommand, sends the reply's transmissions); "writer" runs
\* SendMessages; "ping" runs the timer callback; "node" broadcasts to the
\* session and shuts it down.
Threads == {"main", "writer", "ping", "node"}

\* The sessions and the streams of the Hub's index.
HubSessions == 1 .. NumSessions
HubStreams == 1 .. NumStreams

\* Payloads are distinct tokens, so that a lost, duplicated or reordered
\* payload shows on the connection.
Payloads == 1 .. MaxSends

VARIABLES
    send,       \* s.send as the field holds it: "ch" (the channel) or "nil"
    chBuf,      \* the channel's buffer: frames sent and not yet received
    chClosed,   \* close(s.send) was executed on the channel
    closed,     \* s.closed
    connected,  \* s.connected
    mu,         \* s.mu: "free" or the goroutine holding it
    pingTimer,  \* s.pingTimer: 0 (nil) or the id of the timer last created
    pending,    \* timers armed and neither fired nor stopped
    nTimers,    \* timers created so far by time.AfterFunc
    stack,      \* per goroutine: its activation records, innermost first
    auth,       \* outcome of Node.Authenticate: "none" before the call
    wire,       \* frames the writer put on the connection, in order
    pings,      \* pings put on the connection
    nodeDisconnects, \* calls of Node.Disconnect(session)
    enq,        \* every frame the channel accepted, in order
    nSent,      \* Send calls so far
    nFired,     \* timer firings so far
    overflows,  \* executions of the overflow branch of sendFrame
    panicked,   \* a goroutine panicked (send on or close of a closed channel)
    closeReturned, \* a call of Close has returned to its caller
    chCap,      \* cap(s.send): the capacity the channel was made with
    \* The node's DisconnectQueue (spec.md, 4.3):
    dqQueue,    \* the FIFO of sessions waiting for their RPC Disconnect
    dqShut,     \* the queue was shut down: it refuses enqueues
    dqCalls,    \* the sessions RPC Disconnect was invoked for, in order
    nTasks,     \* Enqueue calls so far (the k-th call brings session k)
    dqRun,      \* Run: "idle" (not called), "running" or "returned"
    dqDrain,    \* the Shutdown call that drains: "none", "draining",
                \* "done" (drained and returned) or "timedout"
    nShutdowns, \* Shutdown calls so far
    \* The node's Hub (spec.md, 4.2):
    hubSubs,    \* forward map: stream -> set of subscribed sessions
    hubStreams  \* reverse map: session -> set of streams

\* The variables of the node's components other than the session.
nodeVars == <<dqQueue, dqShut, dqCalls, nTasks, dqRun, dqDrain, nShutdowns,
              hubSubs, hubStreams>>

vars == <<send, chBuf, chClosed, closed, connected, mu, pingTimer, pending,
          nTimers, stack, auth, wire, pings, nodeDisconnects, enq,
          nSent, nFired, overflows, panicked, closeReturned, chCap,
          nodeVars>>

\* ------------------------------------------------------ activation records
\* pc: the label the function is at; reason, code: the (reason, code)
\* arguments of Disconnect and Close, and the close frame's fields;
\* kind, msg: the frame or message argument of sendFrame and write (in
\* the record of ReadMessages, kind and code hold its local err);
\* flag: a deferred call is registered (Disconnect: node.Disconnect,
\* sendFrame: Disconnect, NewSession: Close).
Rec(pc, reason, code, kind, msg, flag) ==
    [pc |-> pc, reason |-> reason, code |-> code, kind |-> kind,
     msg |-> msg, flag |-> flag]

At(pc) == Rec(pc, "", 0, "", 0, FALSE)

Top(t) == Head(stack[t])

\* Goroutine t is at label pc of the function on top of its stack.  A panic
\* ends the process: no goroutine takes a step after it.
AtPc(t, pc) == ~panicked /\ stack[t] # <<>> /\ Top(t).pc = pc

\* The function on top of t's stack moves to label pc.
Goto(t, pc) == [stack EXCEPT ![t] = <<[Top(t) EXCEPT !.pc = pc]>> \o Tail(@)]

\* The function on top of t's stack moves to label pc and calls: r is pushed.
Call(t, pc, r) ==
    [stack EXCEPT ![t] = <<r, [Top(t) EXCEPT !.pc = pc]>> \o Tail(@)]

\* The function on top of t's stack returns.
Return(t) == [stack EXCEPT ![t] = Tail(@)]

\* The frame a sentFrame value stands for.
TextFrame(msg) ==
    [frameType |-> textFrame, payload |-> msg, closeCode |-> 0, closeReason |-> ""]

CloseFrame(reason, code) ==
    [frameType |-> closeFrame, payload |-> 0, closeCode |-> code,
     closeReason |-> reason]

\* NewSession has returned: the session is known to the node and the hub.
Live == stack["main"] # <<>> /\
        stack["main"][Len(stack["main"])].pc \in {"RM_read", "RM_done"}

InitWith(c) ==
    /\ send = "ch"
    /\ chBuf = <<>>
    /\ chClosed = FALSE
    /\ closed = FALSE
    /\ connected = FALSE
    /\ mu = "free"
    /\ pingTimer = 0
    /\ pending = {}
    /\ nTimers = 0
    /\ stack = [t \in Threads |->
                 CASE t = "main" -> <<At("NS_auth")>>
                   [] t = "writer" -> <<>>
                   [] t = "ping" -> <<At("PT_idle")>>
                   [] OTHER -> <<At("N_idle")>>]
    /\ auth = "none"
    /\ wire = <<>>
    /\ pings = 0
    /\ nodeDisconnects = 0
    /\ enq = <<>>
    /\ nSent = 0
    /\ nFired = 0
    /\ overflows = 0
    /\ panicked = FALSE
    /\ closeReturned = FALSE
    /\ chCap = c
    /\ dqQueue = <<>>
    /\ dqShut = FALSE
    /\ dqCalls = <<>>
    /\ nTasks = 0
    /\ dqRun = "idle"
    /\ dqDrain = "none"
    /\ nShutdowns = 0
    /\ hubSubs = [x \in {} |-> {}]
    /\ hubStreams = [x \in HubSessions |-> {}]

\* The session as NewSession makes it, its channel of capacity QueueCap.
Init == InitWith(QueueCap)


\* ------------------------------------------------------------------- s.mu
\* s.mu.Lock() in write, line 180: blocks until the mutex is free.
Lock(t) ==
    /\ AtPc(t, "W_lock")
    /\ mu = "free"
    /\ mu' = t
    /\ stack' = Goto(t, "W_io")
    /\ UNCHANGED <<send, chBuf, chClosed, closed, connected, pingTimer, pending,
                   nTimers, auth, wire, pings, nodeDisconnects, enq,
                   nSent, nFired, overflows, panicked>>
    /\ UNCHANGED <<closeReturned, chCap, nodeVars>>

\* -------------------------------------------------------------- sendFrame
\* Mutant of ChanSend: the frame is lost.
ChanSend_Lost(buf, f) == buf

\* case s.send <- *frame: the channel is a FIFO.
ChanSend(buf, f) == Append(buf, f)

\* Mutant of SendAfterOverflow: line 173 is missing.
SendAfterOverflow_Kept == "ch"

\* s.send = nil at the end of the overflow branch.
SendAfterOverflow == "nil"

\* Mutant of OverflowDisconnect: the overflow is reported as a normal closure.
OverflowDisconnect_Normal ==
    [pc |-> "D_lock", reason |-> "Write failed", code |-> 1000, kind |-> "",
     msg |-> 0, flag |-> FALSE]

\* defer s.Disconnect("Write failed", CloseAbnormalClosure)
OverflowDisconnect == Rec("D_lock", "Write failed", CloseAbnormalClosure, "", 0, FALSE)

\* The frame argument of the sendFrame activation r.
FrameArg(r) ==
    IF r.kind = "close"
    THEN CloseFrame(r.reason, r.code)
    ELSE TextFrame(r.msg)

\* sendFrame from Lock() to Unlock(), lines 158-176, run by goroutine t whose
\* stack is stk, sendFrame on top.  After an overflow the deferred
\* Disconnect runs as sendFrame returns, the mutex released.
SendFrameSection(t, stk) ==
    IF send = "nil"
    THEN /\ stack' = [stack EXCEPT ![t] = Tail(stk)]
         /\ UNCHANGED <<send, chBuf, chClosed, enq, overflows, panicked>>
    ELSE IF chClosed
    THEN \* a send on a closed channel panics
         /\ panicked' = TRUE
         /\ UNCHANGED <<send, chBuf, chClosed, enq, overflows, stack>>
    ELSE IF Len(chBuf) < chCap
    THEN /\ chBuf' = ChanSend(chBuf, FrameArg(Head(stk)))
         /\ enq' = Append(enq, FrameArg(Head(stk)))
         /\ stack' = [stack EXCEPT ![t] = Tail(stk)]
         /\ UNCHANGED <<send, chClosed, overflows, panicked>>
    ELSE /\ chClosed' = TRUE
         /\ send' = SendAfterOverflow
         /\ overflows' = overflows + 1
         /\ stack' = [stack EXCEPT ![t] =
              <<OverflowDisconnect,
                [Head(stk) EXCEPT !.pc = "SF_ret", !.flag = TRUE]>> \o Tail(stk)]
         /\ UNCHANGED <<chBuf, enq, panicked>>

\* A goroutine waiting in sendFrame's Lock() gets the mutex.
SendFrameBody(t) ==
    /\ AtPc(t, "SF_lock")
    /\ mu = "free"
    /\ SendFrameSection(t, stack[t])
    /\ UNCHANGED <<closed, connected, mu, pingTimer, pending, nTimers, auth,
                   wire, pings, nodeDisconnects, nSent, nFired>>
    /\ UNCHANGED <<closeReturned, chCap, nodeVars>>

\* The deferred Disconnect has returned: sendFrame returns to its caller.
SendFrameReturn(t) ==
    /\ AtPc(t, "SF_ret")
    /\ stack' = Return(t)
    /\ UNCHANGED <<send, chBuf, chClosed, closed, connected, mu, pingTimer,
                   pending, nTimers, auth, wire, pings, nodeDisconnects,
                   enq, nSent, nFired, overflows, panicked>>
    /\ UNCHANGED <<closeReturned, chCap, nodeVars>>

\* ------------------------------------------------------------- Disconnect
\* Mutant of ConnectedAfterDisconnect: line 222 is missing.
ConnectedAfterDisconnect_Kept == connected

\* s.connected = false, line 222.
ConnectedAfterDisconnect == FALSE

\* Disconnect from Lock() to Unlock(), lines 218-223, then the call of
\* Close, line 225; run by goroutine t whose stack is stk, Disconnect on top.
DisconnectSection(t, stk) ==
    /\ connected' = ConnectedAfterDisconnect
    /\ stack' = [stack EXCEPT ![t] =
         <<Rec("C_lock", Head(stk).reason, Head(stk).code, "", 0, FALSE),
           [Head(stk) EXCEPT !.pc = "D_defer", !.flag = connected]>> \o Tail(stk)]

\* A goroutine waiting in Disconnect's Lock() gets the mutex.
DisconnectBody(t) ==
    /\ AtPc(t, "D_lock")
    /\ mu = "free"
    /\ DisconnectSection(t, stack[t])
    /\ UNCHANGED <<send, chBuf, chClosed, closed, mu, pingTimer, pending, nTimers,
                   auth, wire, pings, nodeDisconnects, enq, nSent,
                   nFired, overflows, panicked>>
    /\ UNCHANGED <<closeReturned, chCap, nodeVars>>

\* Disconnect has returned to the function on top of stk.  ReadMessages
\* then breaks out of its loop and returns (line 209): its local err is gone.
AfterDisconnect(stk) ==
    IF stk # <<>> /\ Head(stk).pc = "RM_done"
    THEN <<At("RM_done")>> \o Tail(stk)
    ELSE stk

\* Close returns to its caller, the stack being stk with Close on top.
\* When the caller is a Disconnect that registered no deferred call
\* (s.connected was false, line 219), Disconnect returns with it: line 225
\* is its last statement and nothing runs between the two returns.
CloseReturn(stk) ==
    IF Len(stk) > 1 /\ stk[2].pc = "D_defer" /\ ~stk[2].flag
    THEN AfterDisconnect(Tail(Tail(stk)))
    ELSE Tail(stk)

\* defer s.node.Disconnect(s), line 220: registered if s.connected was true
\* (the flag of Disconnect's record r), run as Disconnect returns.
NodeDisconnectCalls(r) ==
    IF r.flag THEN nodeDisconnects + 1 ELSE nodeDisconnects

\* Disconnect returns, line 226, its call of Close having returned: the
\* deferred s.node.Disconnect(s) runs if it was registered.  No mutex is
\* held between the return of Close and this call.
DisconnectReturn(t) ==
    /\ AtPc(t, "D_defer")
    /\ nodeDisconnects' = NodeDisconnectCalls(Top(t))
    /\ stack' = [stack EXCEPT ![t] = AfterDisconnect(Tail(stack[t]))]
    /\ UNCHANGED <<send, chBuf, chClosed, closed, connected, mu, pingTimer,
                   pending, nTimers, auth, wire, pings, enq, nSent, nFired,
                   overflows, panicked>>
    /\ UNCHANGED <<closeReturned, chCap, nodeVars>>

\* ------------------------------------------------------------------ Close
\* Mutant of CloseReturnsEarly: the check of s.closed is missing.
CloseReturnsEarly_Never(c) == FALSE

\* if s.closed { unlock; return }, line 232.
CloseReturnsEarly(c) == c

\* Close from Lock() to Unlock(), lines 230-238, then the call of
\* sendClose; run by goroutine t whose stack is stk, Close on top.
CloseSection(t, stk) ==
    IF CloseReturnsEarly(closed)
    THEN /\ stack' = [stack EXCEPT ![t] = CloseReturn(stk)]
         /\ closeReturned' = TRUE
         /\ UNCHANGED closed
    ELSE /\ closed' = TRUE
         /\ stack' = [stack EXCEPT ![t] =
              <<Rec("SF_lock", Head(stk).reason, Head(stk).code, "close", 0, FALSE),
                [Head(stk) EXCEPT !.pc = "C_stop"]>> \o Tail(stk)]
         /\ UNCHANGED closeReturned

\* A goroutine waiting in Close's Lock() gets the mutex.
CloseBody(t) ==
    /\ AtPc(t, "C_lock")
    /\ mu = "free"
    /\ CloseSection(t, stack[t])
    /\ UNCHANGED <<send, chBuf, chClosed, connected, mu, pingTimer, pending,
                   nTimers, auth, wire, pings, nodeDisconnects, enq,
                   nSent, nFired, overflows, panicked>>
    /\ UNCHANGED <<chCap, nodeVars>>

\* if s.pingTimer != nil { s.pingTimer.Stop() }, lines 242-244.
CloseStopTimer(t) ==
    /\ AtPc(t, "C_stop")
    /\ pending' = IF pingTimer # 0 THEN pending \ {pingTimer} ELSE pending
    /\ stack' = [stack EXCEPT ![t] = CloseReturn(stack[t])]
    /\ closeReturned' = TRUE
    /\ UNCHANGED <<send, chBuf, chClosed, closed, connected, mu, pingTimer,
                   nTimers, auth, wire, pings, nodeDisconnects, enq,
                   nSent, nFired, overflows, panicked>>
    /\ UNCHANGED <<chCap, nodeVars>>

\* ------------------------------------------------------------------ write
\* defer s.Disconnect("Write Failed", CloseAbnormalClosure), line 118: what
\* every return of SendMessages calls.
WriterDisconnect == Rec("D_lock", "Write Failed", CloseAbnormalClosure, "", 0, FALSE)

\* Mutant of PingDisconnect: a failed ping disconnects with normal closure.
PingDisconnect_Normal ==
    Rec("D_lock", "Ping failed", CloseNormalClosure, "", 0, FALSE)

\* s.Disconnect("Ping failed", CloseAbnormalClosure), line 254.
PingDisconnect == Rec("D_lock", "Ping failed", CloseAbnormalClosure, "", 0, FALSE)

\* write returns err to its caller.  SendMessages (lines 128-132) goes round
\* the loop on nil and returns otherwise; sendPing (lines 249-255) calls
\* addPing on nil and Disconnect otherwise, and is then done.
AfterWrite(t, ok) ==
    LET caller == stack[t][2]
        rest == Tail(Tail(stack[t]))
    IN  IF Top(t).kind = "text"
        THEN IF ok THEN <<caller>> \o rest
             ELSE <<WriterDisconnect, [caller EXCEPT !.pc = "SM_done"]>> \o rest
        ELSE <<IF ok THEN At("AP_lock") ELSE PingDisconnect,
               [caller EXCEPT !.pc = "PT_idle"]>> \o rest

\* Mutant of WriteUnlock: write returns with the mutex still held.
WriteUnlock_Missing(t) == t

\* defer s.mu.Unlock(), line 181: the mutex as write leaves it.
WriteUnlock(t) == "free"

\* write after Lock(): SetWriteDeadline, NextWriter, Write, Close on the
\* connection, then the deferred Unlock().  The write succeeds or fails
\* (NextWriter or the flush returns an error); only a successful write puts
\* the message on the connection.
WriteIO(t) ==
    /\ AtPc(t, "W_io")
    /\ \E ok \in BOOLEAN :
         /\ stack' = [stack EXCEPT ![t] = AfterWrite(t, ok)]
         /\ wire' = IF ok /\ Top(t).kind = "text"
                    THEN Append(wire, TextFrame(Top(t).msg)) ELSE wire
         /\ pings' = IF ok /\ Top(t).kind = "ping" THEN pings + 1 ELSE pings
    /\ mu' = WriteUnlock(t)
    /\ UNCHANGED <<send, chBuf, chClosed, closed, connected, pingTimer, pending,
                   nTimers, auth, nodeDisconnects, enq, nSent, nFired,
                   overflows, panicked>>
    /\ UNCHANGED <<closeReturned, chCap, nodeVars>>

\* ----------------------------------------------------------- SendMessages
\* The top of the loop: s.send is evaluated, without the mutex, for the
\* receive.  A nil channel is never ready: the goroutine then blocks for
\* good ("SM_nil").
SendMessagesLoop(t) ==
    /\ AtPc(t, "SM_loop")
    /\ stack' = Goto(t, IF send = "nil" THEN "SM_nil" ELSE "SM_recv")
    /\ UNCHANGED <<send, chBuf, chClosed, closed, connected, mu, pingTimer,
                   pending, nTimers, auth, wire, pings, nodeDisconnects,
                   enq, nSent, nFired, overflows, panicked>>
    /\ UNCHANGED <<closeReturned, chCap, nodeVars>>

\* Mutant of ChanRecv: the channel hands out its newest frame.
ChanRecv_Last(buf) == buf[Len(buf)]

\* message, ok := <-(the channel evaluated): the oldest frame.
ChanRecv(buf) == Head(buf)

\* What the receive leaves in the channel.
ChanRest(buf) == Tail(buf)

\* The receive: a frame if one is buffered, !ok if the channel is closed and
\* drained, and blocked otherwise.  Then the switch on the frame type: a
\* text frame is written, a close frame is handed to CloseWS, and on any
\* other type (default, lines 136-138) SendMessages returns.
SendMessagesRecv(t) ==
    /\ AtPc(t, "SM_recv")
    /\ chBuf # <<>> \/ chClosed
    /\ IF chBuf = <<>>
       THEN /\ stack' = Call(t, "SM_done", WriterDisconnect)
            /\ UNCHANGED chBuf
       ELSE LET message == ChanRecv(chBuf) IN
            /\ chBuf' = ChanRest(chBuf)
            /\ stack' =
                 IF message.frameType = textFrame
                 THEN Call(t, "SM_loop",
                        Rec("W_lock", "", 0, "text", message.payload, FALSE))
                 ELSE IF message.frameType = closeFrame
                 THEN [stack EXCEPT ![t] =
                        <<[Top(t) EXCEPT !.pc = "SM_closews",
                                         !.reason = message.closeReason,
                                         !.code = message.closeCode]>> \o Tail(@)]
                 ELSE Call(t, "SM_done", WriterDisconnect)
    /\ UNCHANGED <<send, chClosed, closed, connected, mu, pingTimer, pending,
                   nTimers, auth, wire, pings, nodeDisconnects, enq,
                   nSent, nFired, overflows, panicked>>
    /\ UNCHANGED <<closeReturned, chCap, nodeVars>>

\* utils.CloseWS(s.ws, code, reason); return.  The call is given the
\* connection only and runs without s.mu.  It writes the close frame to
\* the connection, or fails to (a broken connection); SendMessages does
\* not look at the outcome and returns.
SendMessagesCloseWS(t) ==
    /\ AtPc(t, "SM_closews")
    /\ \E ok \in BOOLEAN :
         wire' = IF ok
                 THEN Append(wire, CloseFrame(Top(t).reason, Top(t).code))
                 ELSE wire
    /\ stack' = Call(t, "SM_done", WriterDisconnect)
    /\ UNCHANGED <<send, chBuf, chClosed, closed, connected, mu, pingTimer,
                   pending, nTimers, auth, pings, nodeDisconnects, enq,
                   nSent, nFired, overflows, panicked>>
    /\ UNCHANGED <<closeReturned, chCap, nodeVars>>

\* ------------------------------------------------------- sendPing, addPing
\* A pending timer fires: its callback sendPing starts with s.write.
TimerFires(t) ==
    /\ AtPc(t, "PT_idle")
    /\ nFired < MaxPings
    /\ \E i \in pending : pending' = pending \ {i}
    /\ nFired' = nFired + 1
    /\ stack' = Call(t, "SP_write", Rec("W_lock", "", 0, "ping", 0, FALSE))
    /\ UNCHANGED <<send, chBuf, chClosed, closed, connected, mu, pingTimer,
                   nTimers, auth, wire, pings, nodeDisconnects, enq,
                   nSent, overflows, panicked>>
    /\ UNCHANGED <<closeReturned, chCap, nodeVars>>

\* Mutant of AddPingSkips: the check of s.closed is missing.
AddPingSkips_Never(c) == FALSE

\* if s.closed { return }, line 262.
AddPingSkips(c) == c

\* addPing from Lock() to the deferred Unlock(), lines 259-267.
AddPingBody(t) ==
    /\ AtPc(t, "AP_lock")
    /\ mu = "free"
    /\ IF AddPingSkips(closed)
       THEN UNCHANGED <<pingTimer, pending, nTimers>>
       ELSE /\ nTimers' = nTimers + 1
            /\ pingTimer' = nTimers + 1
            /\ pending' = pending \cup {nTimers + 1}
    /\ stack' = Return(t)
    /\ UNCHANGED <<send, chBuf, chClosed, closed, connected, mu, auth, wire,
                   pings, nodeDisconnects, enq, nSent, nFired,
                   overflows, panicked>>
    /\ UNCHANGED <<closeReturned, chCap, nodeVars>>

\* ------------------------------------------------------------------- Send
\* Send(msg): s.sendFrame(&sentFrame{frameType: textFrame, payload: msg}).
SendCall(msg) == Rec("SF_lock", "", 0, "text", msg, FALSE)

\* Send is called by goroutine t, whose stack becomes stk.
SendEntry(t, stk) ==
    /\ nSent' = nSent + 1
    /\ IF mu = "free"
       THEN SendFrameSection(t, stk)
       ELSE /\ stack' = [stack EXCEPT ![t] = stk]
            /\ UNCHANGED <<send, chBuf, chClosed, enq, overflows, panicked>>
    /\ UNCHANGED <<closed, connected, mu, pingTimer, pending, nTimers, auth,
                   wire, pings, nodeDisconnects, nFired>>

\* Hub.Broadcast reaches the session: the node's goroutine calls Send.
Broadcast(t) ==
    /\ AtPc(t, "N_idle")
    /\ Live
    /\ nSent < MaxSends
    /\ SendEntry(t, <<SendCall(nSent + 1)>> \o stack[t])
    /\ UNCHANGED <<closeReturned, chCap, nodeVars>>

\* ------------------------------------------------------------- NewSession
\* err := node.Authenticate(session), line 103.  Node.Authenticate calls
\* RPC Connect, whose reply carries one of these statuses.
AuthStatuses == {"SUCCESS", "FAILURE", "ERROR"}

Authenticate(t) ==
    /\ AtPc(t, "NS_auth")
    /\ \E status \in AuthStatuses : auth' = status
    /\ stack' = Goto(t, "NS_trans")
    /\ UNCHANGED <<send, chBuf, chClosed, closed, connected, mu, pingTimer, pending,
                   nTimers, wire, pings, nodeDisconnects, enq,
                   nSent, nFired, overflows, panicked>>
    /\ UNCHANGED <<closeReturned, chCap, nodeVars>>

\* Node.Authenticate transmits the transmissions of the reply (on SUCCESS
\* and on FAILURE): none, or one Send.
AuthTransmit(t) ==
    /\ AtPc(t, "NS_trans")
    /\ \/ /\ stack' = Goto(t, "NS_authend")
          /\ UNCHANGED nSent
       \/ /\ auth \in {"SUCCESS", "FAILURE"}
          /\ nSent < MaxSends
          /\ nSent' = nSent + 1
          /\ stack' = Call(t, "NS_authend", SendCall(nSent + 1))
    /\ UNCHANGED <<send, chBuf, chClosed, closed, connected, mu, pingTimer,
                   pending, nTimers, auth, wire, pings, nodeDisconnects,
                   enq, nFired, overflows, panicked>>
    /\ UNCHANGED <<closeReturned, chCap, nodeVars>>

\* Node.Authenticate ends: on SUCCESS it marks the session connected, on
\* FAILURE it closes the session with normal closure, on ERROR with
\* internal-server-error and returns the error.
\* NewSession then registers its deferred Close if err != nil (line 105).
AuthFinish(t) ==
    /\ AtPc(t, "NS_authend")
    /\ stack' =
         CASE auth = "SUCCESS" -> Goto(t, "NS_spawn")
           [] auth = "FAILURE" ->
                Call(t, "NS_spawn",
                  Rec("C_lock", "Auth Failed", CloseNormalClosure, "", 0, FALSE))
           [] OTHER ->
                [stack EXCEPT ![t] =
                  <<Rec("C_lock", "Auth Error", CloseInternalServerErr, "", 0, FALSE),
                    [Top(t) EXCEPT !.pc = "NS_spawn", !.flag = TRUE]>> \o Tail(@)]
    /\ connected' = (auth = "SUCCESS")
    /\ UNCHANGED <<send, chBuf, chClosed, closed, mu, pingTimer,
                   pending, nTimers, auth, wire, pings, nodeDisconnects,
                   enq, nSent, nFired, overflows, panicked>>
    /\ UNCHANGED <<closeReturned, chCap, nodeVars>>

\* go session.SendMessages(); session.addPing(), lines 109-111.
NewSessionSpawn(t) ==
    /\ AtPc(t, "NS_spawn")
    /\ stack' = [stack EXCEPT
         !["writer"] = <<At("SM_loop")>>,
         ![t] = <<At("AP_lock"), [Top(t) EXCEPT !.pc = "NS_ret"]>> \o Tail(@)]
    /\ UNCHANGED <<send, chBuf, chClosed, closed, connected, mu, pingTimer,
                   pending, nTimers, auth, wire, pings, nodeDisconnects,
                   enq, nSent, nFired, overflows, panicked>>
    /\ UNCHANGED <<closeReturned, chCap, nodeVars>>

\* return session, err: the deferred Close("Auth Error", ...) runs if
\* registered, and the caller drops the session; otherwise the caller goes
\* on to ReadMessages.
NewSessionReturn(t) ==
    /\ AtPc(t, "NS_ret")
    /\ stack' = IF Top(t).flag
                THEN Call(t, "NS_failed",
                       Rec("C_lock", "Auth Error", CloseInternalServerErr, "", 0, FALSE))
                ELSE Goto(t, "RM_read")
    /\ UNCHANGED <<send, chBuf, chClosed, closed, connected, mu, pingTimer,
                   pending, nTimers, auth, wire, pings, nodeDisconnects,
                   enq, nSent, nFired, overflows, panicked>>
    /\ UNCHANGED <<closeReturned, chCap, nodeVars>>

\* ------------------------------------------------------------ ReadMessages
\* What s.ws.ReadMessage() can return as err: a close error with a status
\* code (an expected one, or 1002, protocol error, which is not), or another
\* error.
ReadErrors ==
    {[close |-> TRUE, code |-> c] : c \in expectedCloseStatuses \cup {1002}}
    \cup {[close |-> FALSE, code |-> 0]}

\* How the activation record of ReadMessages keeps its local err: kind says
\* whether it is a close error, code is the status code of a close error.
ErrKind(err) == IF err.close THEN "CloseError" ELSE "Error"

\* Mutant of IsCloseError: every close error counts as expected.
IsCloseError_Any(err, codes) == err.close

\* websocket.IsCloseError(err, codes...)
IsCloseError(err, codes) == err.close /\ err.code \in codes

\* The Disconnect ReadMessages calls on err, lines 202-208.
ReadDisconnect(err) ==
    IF IsCloseError(err, expectedCloseStatuses)
    THEN Rec("D_lock", "Read closed", CloseNormalClosure, "", 0, FALSE)
    ELSE Rec("D_lock", "Read failed", CloseAbnormalClosure, "", 0, FALSE)

\* s.ws.ReadMessage() returns one of the errors errs: Disconnect and break.
\* With keep, the activation record shows the local err while Disconnect runs.
ReadMessagesOn(t, errs, keep) ==
    /\ AtPc(t, "RM_read")
    /\ \E err \in errs :
         LET frame == IF keep
                      THEN [Top(t) EXCEPT !.pc = "RM_done",
                                          !.kind = ErrKind(err),
                                          !.code = err.code]
                      ELSE [Top(t) EXCEPT !.pc = "RM_done"]
             stk == <<ReadDisconnect(err), frame>> \o Tail(stack[t])
         IN  IF mu = "free"
             THEN DisconnectSection(t, stk)
             ELSE /\ stack' = [stack EXCEPT ![t] = stk]
                  /\ UNCHANGED connected
    /\ UNCHANGED <<send, chBuf, chClosed, closed, mu, pingTimer,
                   pending, nTimers, auth, wire, pings, nodeDisconnects,
                   enq, nSent, nFired, overflows, panicked>>
    /\ UNCHANGED <<closeReturned, chCap, nodeVars>>

\* The reader of a session whose goroutines all run.
ReadMessages(t) == ReadMessagesOn(t, ReadErrors, FALSE)

\* Every error the reader can meet: a close error with any status code of
\* RFC 6455 (1000 to 1015), or an error that is not a close error.
AllReadErrors ==
    {[close |-> TRUE, code |-> c] : c \in 1000 .. 1015}
    \cup {[close |-> FALSE, code |-> 0]}

\* The reader meets any of these errors, its record showing which.
ReadAnyError(t) == ReadMessagesOn(t, AllReadErrors, TRUE)

\* s.ws.ReadMessage() returns a message: s.node.HandleCommand(s, message),
\* line 212.  Node.HandleCommand calls RPC Command and sends the reply's
\* transmission to the session; then the loop reads again.
HandleCommand(t) ==
    /\ AtPc(t, "RM_read")
    /\ nSent < MaxSends
    /\ SendEntry(t, <<SendCall(nSent + 1)>> \o stack[t])
    /\ UNCHANGED <<closeReturned, chCap, nodeVars>>

\* ------------------------------------------------------------ Node.Shutdown
\* The node closes the session with going-away.
NodeShutdown(t) ==
    /\ AtPc(t, "N_idle")
    /\ Live
    /\ LET stk == <<Rec("C_lock", "Shutdown", CloseGoingAway, "", 0, FALSE),
                    [Top(t) EXCEPT !.pc = "N_done"]>> \o Tail(stack[t])
       IN  IF mu = "free"
           THEN CloseSection(t, stk)
           ELSE /\ stack' = [stack EXCEPT ![t] = stk]
                /\ UNCHANGED <<closed, closeReturned>>
    /\ UNCHANGED <<send, chBuf, chClosed, connected, mu, pingTimer,
                   pending, nTimers, auth, wire, pings, nodeDisconnects,
                   enq, nSent, nFired, overflows, panicked>>
    /\ UNCHANGED <<chCap, nodeVars>>

\* ------------------------------------------------------------------- Next
Next ==
    \/ \E t \in Threads : Lock(t)
    \/ \E t \in Threads : SendFrameBody(t)
    \/ \E t \in Threads : SendFrameReturn(t)
    \/ \E t \in Threads : DisconnectBody(t)
    \/ \E t \in Threads : DisconnectReturn(t)
    \/ \E t \in Threads : CloseBody(t)
    \/ \E t \in Threads : CloseStopTimer(t)
    \/ \E t \in Threads : WriteIO(t)
    \/ \E t \in Threads : SendMessagesLoop(t)
    \/ \E t \in Threads : SendMessagesRecv(t)
    \/ \E t \in Threads : SendMessagesCloseWS(t)
    \/ \E t \in Threads : TimerFires(t)
    \/ \E t \in Threads : AddPingBody(t)
    \/ \E t \in Threads : Broadcast(t)
    \/ \E t \in Threads : Authenticate(t)
    \/ \E t \in Threads : AuthTransmit(t)
    \/ \E t \in Threads : AuthFinish(t)
    \/ \E t \in Threads : NewSessionSpawn(t)
    \/ \E t \in Threads : NewSessionReturn(t)
    \/ \E t \in Threads : ReadMessages(t)
    \/ \E t \in Threads : HandleCommand(t)
    \/ \E t \in Threads : NodeShutdown(t)

Spec == Init /\ [][Next]_vars

\* The same session with a channel that holds several frames at once.
WideInit == InitWith(WideCap)

WideSpec == WideInit /\ [][Next]_vars


\* A step of goroutine t's own code: everything but what its environment
\* decides (a producer calling Send, the client closing or sending a command,
\* the node shutting down, the timer firing).
Run(t) ==
    \/ Lock(t)
    \/ SendFrameBody(t)
    \/ SendFrameReturn(t)
    \/ DisconnectBody(t)
    \/ DisconnectReturn(t)
    \/ CloseBody(t)
    \/ CloseStopTimer(t)
    \/ WriteIO(t)
    \/ SendMessagesLoop(t)
    \/ SendMessagesRecv(t)
    \/ SendMessagesCloseWS(t)
    \/ AddPingBody(t)
    \/ Authenticate(t)
    \/ AuthTransmit(t)
    \/ AuthFinish(t)
    \/ NewSessionSpawn(t)
    \/ NewSessionReturn(t)

\* Scheduling: a goroutine that can run does run.  A goroutine waiting for
\* s.mu is not starved: the other goroutines take finitely many steps in all
\* (the sends, the timer firings and the frames queued are bounded), so the
\* mutex is in the end free for it.
Fairness == \A t \in Threads : WF_vars(Run(t))

FairSpec == Spec /\ Fairness

\* ---------------------------------------------------------------- helpers
\* The payloads of the text frames of a sequence of frames, in order.
TextPayloads(frames) ==
    LET texts == SelectSeq(frames, LAMBDA f : f.frameType = textFrame)
    IN  [i \in 1 .. Len(texts) |-> texts[i].payload]

CloseFrames(frames) == SelectSeq(frames, LAMBDA f : f.frameType = closeFrame)

IsPrefix(a, b) == Len(a) <= Len(b) /\ \A i \in 1 .. Len(a) : a[i] = b[i]

\* Payload m is on the connection.
Written(m) == \E i \in 1 .. Len(wire) :
                 wire[i].frameType = textFrame /\ wire[i].payload = m

\* Payload m was accepted by the channel.
Accepted(m) == \E i \in 1 .. Len(enq) :
                  enq[i].frameType = textFrame /\ enq[i].payload = m

\* Goroutine t is inside a Send of payload m, waiting for the mutex.
InSend(t, m) == AtPc(t, "SF_lock") /\ Top(t).kind = "text" /\ Top(t).msg = m

\* Some activation of goroutine t is at label pc.
Within(t, pc) == \E i \in 1 .. Len(stack[t]) : stack[t][i].pc = pc

\* The Close call that set closed is still running (it has yet to send the
\* close frame or to stop the timer).
Closing == \E t \in Threads : Within(t, "C_stop")

\* A call of Close has returned to the code that called it.
SomeCloseReturned == closeReturned

\* ------------------------------------------------------------------ claims
\* C1: Node.Disconnect (RPC Disconnect) is called at most once for a session,
\* however many of the reader, the writer, the ping handler and an overflowing
\* Send call Disconnect, and only for a session whose connected flag was set
\* (authentication succeeded).
C1_DisconnectAtMostOnce ==
    /\ nodeDisconnects <= 1
    /\ nodeDisconnects = 1 => auth = "SUCCESS"

\* The reader and the writer have both run Disconnect to its end on a
\* connected session, and Node.Disconnect was called.
C1_Witness ==
    /\ nodeDisconnects = 1
    /\ AtPc("main", "RM_done")
    /\ AtPc("writer", "SM_done")

\* C2: a Send that finds the queue full returns to its caller without a panic
\* or an error; it has closed the queue and called Disconnect with
\* CloseAbnormalClosure, and when it returns the session is closed and no
\* longer connected.
C2_OverflowTerminates ==
    \A t \in Threads : \A i \in 1 .. Len(stack[t]) :
        (stack[t][i].pc = "SF_ret" /\ stack[t][i].kind = "text") =>
            /\ ~panicked
            /\ chClosed
            /\ send = "nil"
            /\ IF i = 1
               THEN closed /\ ~connected
               ELSE /\ stack[t][i - 1].pc \in {"D_lock", "D_defer"}
                    /\ stack[t][i - 1].code = CloseAbnormalClosure

\* A Send met a full queue and is about to return.
C2_Witness ==
    \E t \in Threads : AtPc(t, "SF_ret") /\ Top(t).kind = "text"

\* C3 (as stated): no Send waits while a goroutine is inside a write to the
\* connection.
C3_SendNeverWaitsForWrite ==
    \A t \in Threads :
        ~(/\ AtPc(t, "SF_lock")
          /\ Top(t).kind = "text"
          /\ mu \in Threads
          /\ AtPc(mu, "W_io"))

\* C4 (as stated): a goroutine inside a write to the connection (a text
\* message or a ping in write, a close frame in CloseWS) holds s.mu.
C4_WritesHoldLock ==
    \A t \in Threads :
        (AtPc(t, "W_io") \/ AtPc(t, "SM_closews")) => mu = t

\* A Send of a text payload is waiting for the mutex.
SendWaiting == \E t \in Threads : AtPc(t, "SF_lock") /\ Top(t).kind = "text"

\* C5 (as stated): once closed is set, a Send that starts afterwards adds no
\* text frame to the queue.
C5_ClosedAcceptsNoFrame ==
    [][(closed /\ ~SendWaiting) => TextPayloads(enq') = TextPayloads(enq)]_vars

\* Goroutine t runs sendFrame's critical section for a close frame.
SendCloseStep(t) ==
    /\ AtPc(t, "SF_lock")
    /\ Top(t).kind = "close"
    /\ stack'[t] # stack[t]

\* C6 (as stated): the first Close sets closed and enqueues a close frame
\* with its reason and code; closed never goes back to false and one close
\* frame at most is ever enqueued.
C6_FirstCloseEnqueues ==
    /\ [][closed => closed']_vars
    /\ [][\A t \in Threads :
            SendCloseStep(t) =>
                enq' = Append(enq, CloseFrame(Top(t).reason, Top(t).code))]_vars
    /\ [](Len(CloseFrames(enq)) <= 1)

\* C6 (amended): the first Close sets closed and, if the queue is open and
\* not full, enqueues a close frame with its reason and code, and otherwise
\* enqueues nothing; closed never goes back to false, Close runs past its
\* check of closed once at most, and one close frame at most is ever enqueued.
C6_CloseIdempotent ==
    /\ [][closed => closed']_vars
    /\ [][\A t \in Threads :
            SendCloseStep(t) =>
                IF send = "ch" /\ Len(chBuf) < QueueCap
                THEN enq' = Append(enq, CloseFrame(Top(t).reason, Top(t).code))
                ELSE enq' = enq]_vars
    /\ [](Len(CloseFrames(enq)) <= 1)
    /\ [](Cardinality({t \in Threads : Within(t, "C_stop")}) <= 1)
    /\ [](Closing => closed)

\* Two calls of Close have returned (the node's and the reader's), and one
\* close frame was enqueued.
C6_Witness ==
    /\ closed
    /\ ~Closing
    /\ AtPc("node", "N_done")
    /\ AtPc("main", "RM_done")
    /\ Len(CloseFrames(enq)) = 1

\* C7 (as stated): while the session is not closed, no payload handed to Send
\* is dropped: it was accepted by the queue or its Send is still running.
C7_NoPayloadDropped ==
    ~closed =>
        \A m \in 1 .. nSent :
            Accepted(m) \/ \E t \in Threads : InSend(t, m)

\* C7 (amended): every payload handed to Send is eventually written to the
\* connection unchanged, or the session is eventually closed.
C7_WrittenOrClosed ==
    \A m \in Payloads : (nSent >= m) ~> (Written(m) \/ closed)

\* Payload 1 was written; payload 2 was accepted and the writer ended without
\* writing it, the session closed.
C7_Witness ==
    /\ Written(1)
    /\ Accepted(2)
    /\ ~Written(2)
    /\ closed
    /\ AtPc("writer", "SM_done")

\* C8: the text payloads written to the connection are a prefix of the text
\* payloads the queue accepted, in the order it accepted them: nothing is
\* reordered, duplicated or written without having been accepted.
C8_WrittenInOrder == IsPrefix(TextPayloads(wire), TextPayloads(enq))

\* Payloads 1 and 2 waited in the queue together; the writer received and
\* wrote payload 1, and payload 2 is still queued, a close frame behind it.
C8_Witness ==
    /\ chCap > 1
    /\ TextPayloads(wire) = <<1>>
    /\ TextPayloads(enq) = <<1, 2>>
    /\ Len(chBuf) = 2
    /\ chBuf[1] = TextFrame(2)
    /\ chBuf[2].frameType = closeFrame

\* C9 (as stated): once a call of Close has returned, no ping timer is
\* pending.
C9_NoTimerAfterAnyClose == SomeCloseReturned => pending = {}

\* C9 (amended): no timer is armed while closed is set, and once the call of
\* Close that set closed has returned no ping timer is pending.
C9_NoTimerAfterClose ==
    /\ [][closed => pending' \subseteq pending]_vars
    /\ []((closed /\ ~Closing) => pending = {})

\* The timer fired, its handler wrote the ping and ran addPing to its end on a
\* closed session; the call of Close that closed the session has returned.
C9_Witness ==
    /\ closed
    /\ ~Closing
    /\ nFired = 1
    /\ pings = 1
    /\ AtPc("ping", "PT_idle")

\* C10: the queue never holds more than its capacity; the overflow branch
\* (which closes the queue) runs once at most, and no goroutine closes the
\* queue twice or sends on it after it was closed (either would panic).
C10_QueueBounded ==
    /\ Len(chBuf) <= QueueCap
    /\ overflows <= 1
    /\ chClosed <=> overflows = 1
    /\ ~panicked

\* The queue overflowed, and the Close that followed (it calls sendFrame on
\* the closed queue) has returned, as has the overflowing call.
C10_Witness ==
    /\ overflows = 1
    /\ closed
    /\ ~Closing
    /\ \A t \in Threads : ~Within(t, "SF_ret")

\* C11 (as stated): when Node.Disconnect is invoked for the session, closed
\* is not yet true and no close frame was enqueued: Disconnect orders the RPC
\* Disconnect before it calls Close.
C11_DisconnectBeforeClose ==
    [][nodeDisconnects' # nodeDisconnects =>
          ~closed /\ Len(CloseFrames(enq)) = 0]_vars

\* Goroutine t takes a step inside a call of Close that went past its check
\* of closed, below that call (in sendClose and what sendClose calls).
StepInsideClose(t) ==
    /\ Within(t, "C_stop")
    /\ ~AtPc(t, "C_stop")
    /\ stack'[t] # stack[t]

\* C12 (as stated): no step made inside a call of Close changes connected or
\* invokes Node.Disconnect, whatever the state of the queue.
C12_CloseNotifiesNoRPC ==
    [][\A t \in Threads :
          StepInsideClose(t) =>
              connected' = connected /\ nodeDisconnects' = nodeDisconnects]_vars

\* ------------------------------------------------------- the reader alone
\* The goroutine that runs NewSession and ReadMessages, the other goroutines
\* taking no step: the reader handles commands and then meets any read error.
ReaderNext ==
    \/ Authenticate("main")
    \/ AuthTransmit("main")
    \/ AuthFinish("main")
    \/ NewSessionSpawn("main")
    \/ AddPingBody("main")
    \/ NewSessionReturn("main")
    \/ HandleCommand("main")
    \/ ReadAnyError("main")
    \/ SendFrameBody("main")
    \/ SendFrameReturn("main")
    \/ DisconnectBody("main")
    \/ DisconnectReturn("main")
    \/ CloseBody("main")
    \/ CloseStopTimer("main")

ReaderSpec == Init /\ [][ReaderNext]_vars

\* The reader is in the Disconnect it calls on a read error; i is the index
\* of the record of ReadMessages, which shows the error.
ReaderDisconnecting(i) ==
    /\ i \in 1 .. Len(stack["main"])
    /\ stack["main"][i].pc = "RM_done"
    /\ stack["main"][i].kind # ""

\* C13: on a read error the reader calls Disconnect, with normal closure
\* (1000) for a close error whose status is 1000, 1001 or 1005 and with
\* abnormal closure (1006) for every other error; it has then left its loop
\* and handles no command any more.
C13_ReadErrorDisconnects ==
    /\ \A i \in 1 .. Len(stack["main"]) :
         ReaderDisconnecting(i) =>
            /\ i > 1
            /\ stack["main"][i - 1].pc \in {"D_lock", "D_defer"}
            /\ stack["main"][i - 1].code =
                 IF /\ stack["main"][i].kind = "CloseError"
                    /\ stack["main"][i].code \in {1000, 1001, 1005}
                 THEN 1000
                 ELSE 1006
    /\ Within("main", "RM_done") => ~ENABLED HandleCommand("main")

\* The reader handled a command, then met a close error with a status that
\* is not expected, and is in Disconnect.
C13_Witness ==
    /\ nSent > 0
    /\ \E i \in 1 .. Len(stack["main"]) :
         /\ ReaderDisconnecting(i)
         /\ stack["main"][i].kind = "CloseError"
         /\ stack["main"][i].code = 1006

\* -------------------------------------------------------- DisconnectQueue
\* The node's rate-limited queue of RPC Disconnect orders, after its
\* contract (spec.md, 4.3).  Enqueue, one tick of Run and one removal by
\* Shutdown are each one step; the pace of the ticks is not modelled.
sessionVars == <<send, chBuf, chClosed, closed, connected, mu, pingTimer,
                 pending, nTimers, stack, auth, wire, pings, nodeDisconnects,
                 enq, nSent, nFired, overflows, panicked, closeReturned,
                 chCap>>

hubVars == <<hubSubs, hubStreams>>

\* Mutant of EnqueueAccepts: a queue shut down still accepts.
EnqueueAccepts_Always(shut) == TRUE

\* Enqueue adds to the queue unless it is shut down.
EnqueueAccepts(shut) == ~shut

\* Mutant of EnqueueAt: the session is put at the head.
EnqueueAt_Head(q, x) == <<x>> \o q

\* The queue is a FIFO: Enqueue adds at the tail.
EnqueueAt(q, x) == Append(q, x)

\* Enqueue(session)
Enqueue ==
    /\ nTasks < MaxTasks
    /\ nTasks' = nTasks + 1
    /\ dqQueue' = IF EnqueueAccepts(dqShut)
                  THEN EnqueueAt(dqQueue, nTasks + 1)
                  ELSE dqQueue
    /\ UNCHANGED <<dqShut, dqCalls, dqRun, dqDrain, nShutdowns>>
    /\ UNCHANGED <<sessionVars, hubVars>>

\* Run() is called: the worker loop starts.
RunStart ==
    /\ dqRun = "idle"
    /\ dqRun' = "running"
    /\ UNCHANGED <<dqQueue, dqShut, dqCalls, nTasks, dqDrain, nShutdowns>>
    /\ UNCHANGED <<sessionVars, hubVars>>

\* Mutant of NextTask: the newest session is served first.
NextTask_Last(q) == q[Len(q)]

\* The session a tick or Shutdown serves: the oldest.
NextTask(q) == Head(q)

\* A tick of Run: one session is removed and RPC Disconnect invoked for it.
Tick ==
    /\ dqRun = "running"
    /\ dqQueue # <<>>
    /\ dqCalls' = Append(dqCalls, NextTask(dqQueue))
    /\ dqQueue' = Tail(dqQueue)
    /\ UNCHANGED <<dqShut, nTasks, dqRun, dqDrain, nShutdowns>>
    /\ UNCHANGED <<sessionVars, hubVars>>

\* Run returns when the queue is shut down and drained.
RunReturn ==
    /\ dqRun = "running"
    /\ dqShut
    /\ dqQueue = <<>>
    /\ dqRun' = "returned"
    /\ UNCHANGED <<dqQueue, dqShut, dqCalls, nTasks, dqDrain, nShutdowns>>
    /\ UNCHANGED <<sessionVars, hubVars>>

\* Mutant of ShutdownSkips: every call drains again.
ShutdownSkips_Never(drain) == FALSE

\* Shutdown is idempotent: a call after the first returns at once.
ShutdownSkips(drain) == drain # "none"

\* Shutdown() is called: the first call starts to drain the queue.
ShutdownCall ==
    /\ nShutdowns < MaxShutdowns
    /\ nShutdowns' = nShutdowns + 1
    /\ dqDrain' = IF ShutdownSkips(dqDrain) THEN dqDrain ELSE "draining"
    /\ UNCHANGED <<dqQueue, dqShut, dqCalls, nTasks, dqRun>>
    /\ UNCHANGED <<sessionVars, hubVars>>

\* Shutdown drains: RPC Disconnect is invoked for one remaining session.
ShutdownDrain ==
    /\ dqDrain = "draining"
    /\ dqQueue # <<>>
    /\ dqCalls' = Append(dqCalls, NextTask(dqQueue))
    /\ dqQueue' = Tail(dqQueue)
    /\ UNCHANGED <<dqShut, nTasks, dqRun, dqDrain, nShutdowns>>
    /\ UNCHANGED <<sessionVars, hubVars>>

\* Shutdown finds the queue drained: from then on the queue refuses
\* enqueues, and Shutdown returns.
ShutdownFinish ==
    /\ dqDrain = "draining"
    /\ dqQueue = <<>>
    /\ dqShut' = TRUE
    /\ dqDrain' = "done"
    /\ UNCHANGED <<dqQueue, dqCalls, nTasks, dqRun, nShutdowns>>
    /\ UNCHANGED <<sessionVars, hubVars>>

\* The total deadline of Shutdown passes with sessions left: the queue
\* refuses enqueues from then on, and Shutdown returns.
ShutdownDeadline ==
    /\ dqDrain = "draining"
    /\ dqQueue # <<>>
    /\ dqShut' = TRUE
    /\ dqDrain' = "timedout"
    /\ UNCHANGED <<dqQueue, dqCalls, nTasks, dqRun, nShutdowns>>
    /\ UNCHANGED <<sessionVars, hubVars>>

DQNext ==
    \/ Enqueue
    \/ RunStart
    \/ Tick
    \/ RunReturn
    \/ ShutdownCall
    \/ ShutdownDrain
    \/ ShutdownFinish
    \/ ShutdownDeadline

DQSpec == Init /\ [][DQNext]_vars

\* The worker of Run takes its ticks, and a Shutdown that drains goes on
\* until it returns.  Calls of Enqueue, Run and Shutdown are not forced.
DQFairness ==
    /\ WF_vars(Tick)
    /\ WF_vars(RunReturn)
    /\ WF_vars(ShutdownDrain \/ ShutdownFinish \/ ShutdownDeadline)

DQFairSpec == DQSpec /\ DQFairness

\* Size()
Size == Len(dqQueue)

\* The sessions in a sequence.
Range(q) == {q[i] : i \in 1 .. Len(q)}

\* C14: once a Shutdown has returned with the queue drained, Size() is 0,
\* RPC Disconnect has been invoked for every session accepted before, and it
\* stays so: an Enqueue after the shutdown adds nothing.
C14_ShutdownLeavesEmpty ==
    dqDrain = "done" =>
        /\ Size = 0
        /\ \A i \in 1 .. Len(dqCalls) : dqCalls[i] = i
        /\ \A x \in (Len(dqCalls) + 1) .. nTasks : x \notin Range(dqCalls)

\* Shutdown alone drained two sessions, and a third was enqueued after it.
C14_Witness ==
    /\ dqDrain = "done"
    /\ dqRun = "idle"
    /\ Len(dqCalls) = 2
    /\ nTasks = 3
    /\ Size = 0

\* C15: a Shutdown call after the first changes nothing and invokes no RPC
\* Disconnect, and every Shutdown that drains returns.
C15_ShutdownIdempotent ==
    /\ [][(nShutdowns' # nShutdowns /\ nShutdowns > 0) =>
             UNCHANGED <<dqQueue, dqShut, dqCalls, dqRun, dqDrain>>]_vars
    /\ (dqDrain = "draining") ~> (dqDrain \in {"done", "timedout"})

\* Shutdown was called a second time after the first one had returned.
C15_Witness ==
    /\ nShutdowns = MaxShutdowns
    /\ dqDrain = "done"
    /\ Len(dqCalls) > 0

\* C16: with Run active every queued session is eventually removed, and RPC
\* Disconnect is invoked for it once, one session per tick, oldest first;
\* Size() eventually reaches 0; Run returns once the queue is shut down and
\* drained, and not before.
C16_RunDrainsInOrder ==
    /\ [][/\ IsPrefix(dqCalls \o dqQueue, dqCalls' \o dqQueue')
          /\ IsPrefix(dqCalls, dqCalls')
          /\ Len(dqCalls') <= Len(dqCalls) + 1]_vars
    /\ [](\A i, j \in 1 .. Len(dqCalls) : dqCalls[i] = dqCalls[j] => i = j)
    /\ \A x \in 1 .. MaxTasks :
           (dqRun = "running" /\ x \in Range(dqQueue)) ~> (x \in Range(dqCalls))
    /\ (dqRun = "running") ~> (Size = 0)
    /\ (dqRun = "running" /\ dqShut) ~> (dqRun = "returned")
    /\ [](dqRun = "returned" => dqShut /\ Size = 0)

\* Run served every session by its ticks and returned after the shutdown.
C16_Witness ==
    /\ dqRun = "returned"
    /\ dqDrain = "none" \/ dqDrain = "done"
    /\ dqCalls = [i \in 1 .. MaxTasks |-> i]

\* C17: an Enqueue on a queue not shut down adds the session at the tail and
\* nothing else, so Size() grows by one; with no Run and no Shutdown in
\* between, Size() is the number of Enqueue calls.
C17_EnqueueAppendsOne ==
    /\ [][(nTasks' # nTasks /\ ~dqShut) =>
             /\ dqQueue' = Append(dqQueue, nTasks')
             /\ Len(dqQueue') = Size + 1]_vars
    /\ []((dqRun = "idle" /\ nShutdowns = 0) => Size = nTasks)

\* Three sessions were enqueued in a row and are all waiting, in order.
C17_Witness ==
    /\ dqRun = "idle"
    /\ nShutdowns = 0
    /\ dqQueue = [i \in 1 .. MaxTasks |-> i]

\* -------------------------------------------------------------------- Hub
\* The subscription index of the hub, after its contract (spec.md, 4.2).
\* Every operation runs under the hub's mutex and is one step.
dqVars == <<dqQueue, dqShut, dqCalls, nTasks, dqRun, dqDrain, nShutdowns>>

\* hub.subscribers(stream): a stream missing from the forward map has none.
Subscribers(x) == IF x \in DOMAIN hubSubs THEN hubSubs[x] ELSE {}

\* Mutant of KeepStream: a stream stays in the forward map when it is empty.
KeepStream_Always(subs) == TRUE

\* An empty stream set is garbage-collected from the forward map.
KeepStream(subs) == subs # {}

\* The forward map with session x removed from the streams in gone.
WithoutSession(x, gone) ==
    LET left(y) == IF y \in gone THEN hubSubs[y] \ {x} ELSE hubSubs[y]
    IN  [y \in {z \in DOMAIN hubSubs : KeepStream(left(z))} |-> left(y)]

\* Subscribe(session, stream): add to both directions.
Subscribe(x, y) ==
    /\ hubSubs' = [z \in DOMAIN hubSubs \cup {y} |->
                      IF z = y THEN Subscribers(y) \cup {x} ELSE hubSubs[z]]
    /\ hubStreams' = [hubStreams EXCEPT ![x] = @ \cup {y}]
    /\ UNCHANGED <<sessionVars, dqVars>>

\* Unsubscribe(session, stream): remove from both directions.
Unsubscribe(x, y) ==
    /\ hubSubs' = WithoutSession(x, {y} \cap DOMAIN hubSubs)
    /\ hubStreams' = [hubStreams EXCEPT ![x] = @ \ {y}]
    /\ UNCHANGED <<sessionVars, dqVars>>

\* UnsubscribeAll(session): remove from every stream the session is in.
UnsubscribeAll(x) ==
    /\ hubSubs' = WithoutSession(x, hubStreams[x] \cap DOMAIN hubSubs)
    /\ hubStreams' = [hubStreams EXCEPT ![x] = {}]
    /\ UNCHANGED <<sessionVars, dqVars>>

HubNext ==
    \/ \E x \in HubSessions, y \in HubStreams : Subscribe(x, y)
    \/ \E x \in HubSessions, y \in HubStreams : Unsubscribe(x, y)
    \/ \E x \in HubSessions : UnsubscribeAll(x)

HubSpec == Init /\ [][HubNext]_vars

\* C18: the two directions of the subscription index agree, and no stream
\* is kept in the forward map with an empty subscriber set.
C18_IndexDirectionsAgree ==
    /\ \A x \in HubSessions, y \in HubStreams :
           x \in Subscribers(y) <=> y \in hubStreams[x]
    /\ \A y \in DOMAIN hubSubs : hubSubs[y] # {}

\* One stream has two subscribers, one session has two streams, and a
\* stream has no subscriber and is not in the forward map.
C18_Witness ==
    /\ DOMAIN hubSubs = {1, 2}
    /\ hubSubs[1] = {1, 2}
    /\ hubSubs[2] = {2}
    /\ hubStreams[2] = {1, 2}
    /\ hubStreams[3] = {}

\* ------------------------------------------------- the writer's way out
\* SendMessages has left its loop: it runs its deferred Disconnect or has
\* returned.
WriterExited == Within("writer", "SM_done")

\* C19 (as stated): after a queue overflow the writer eventually exits, in
\* every execution (a panic of the process apart).
C19_WriterExitsAfterOverflow ==
    (overflows > 0 /\ stack["writer"] # <<>>) ~> (WriterExited \/ panicked)

\* The writer takes a return of SendMessages in this step.
WriterExits == ~WriterExited /\ WriterExited'

\* The writer has received a close frame and is about to deliver it.
WriterAtClose == AtPc("writer", "SM_closews")

\* The writer was started and the queue has been closed.
QueueClosedOnWriter == chClosed /\ stack["writer"] # <<>>

\* C20 (as stated): the writer leaves its loop on a failed write, on a
\* receive that finds the queue closed, or on a close frame once CloseWS
\* was called for it (the frame delivered, or the connection broken), and
\* then calls Disconnect with abnormal closure; having received a close
\* frame it writes no text frame any more and exits; and once the queue is
\* closed the writer exits (a panic of the process apart).
C20_CloseFrameTerminal ==
    /\ [][WriterExits =>
            /\ \/ AtPc("writer", "W_io") /\ wire' = wire
               \/ /\ AtPc("writer", "SM_recv") /\ chClosed /\ chBuf = <<>>
                  /\ wire' = wire
               \/ /\ WriterAtClose
                  /\ \/ wire' = Append(wire, CloseFrame(Top("writer").reason,
                                                        Top("writer").code))
                     \/ wire' = wire
            /\ Head(stack'["writer"]).pc = "D_lock"
            /\ Head(stack'["writer"]).code = CloseAbnormalClosure]_vars
    /\ [][(WriterAtClose \/ WriterExited) =>
             /\ TextPayloads(wire') = TextPayloads(wire)
             /\ ~AtPc("writer", "SM_recv")' /\ ~AtPc("writer", "W_io")']_vars
    /\ WriterAtClose ~> (WriterExited \/ panicked)
    /\ QueueClosedOnWriter ~> (WriterExited \/ panicked)

\* ------------------------------------------------------------ the pinger
\* The ping handler returns from its write in this step.
PingWriteReturns == AtPc("ping", "W_io") /\ stack'["ping"] # stack["ping"]

\* The ping handler is inside addPing and completes it in this step.
PingAddPingRuns == AtPc("ping", "AP_lock") /\ stack'["ping"] # stack["ping"]

\* C21: a firing takes the pending timer and writes one ping; after a
\* successful write addPing arms one new timer unless the session is closed,
\* so that never more than one timer is pending; after a failed write
\* Disconnect("Ping failed", 1006) is called and no timer is armed.
C21_PingRearmsOrDisconnects ==
    /\ [](Cardinality(pending) <= 1)
    /\ [](pings <= nFired /\ nTimers <= 1 + pings)
    /\ [][nFired' # nFired =>
            /\ Cardinality(pending) = 1 /\ pending' = {}
            /\ Head(stack'["ping"]).kind = "ping"]_vars
    /\ [][PingWriteReturns =>
            \/ /\ pings' = pings + 1
               /\ Head(stack'["ping"]).pc = "AP_lock"
            \/ /\ pings' = pings
               /\ Head(stack'["ping"]).pc = "D_lock"
               /\ Head(stack'["ping"]).reason = "Ping failed"
               /\ Head(stack'["ping"]).code = CloseAbnormalClosure]_vars
    /\ [][PingAddPingRuns =>
            IF closed
            THEN pending' = pending /\ nTimers' = nTimers
            ELSE /\ nTimers' = nTimers + 1
                 /\ pending' = {nTimers'}
                 /\ pingTimer' = nTimers']_vars
    /\ []((AtPc("ping", "PT_idle") /\ pings < nFired) =>
             closed /\ pending = {})

\* The timer fired, the write of the ping failed, the handler's Disconnect
\* has run to its end, and no timer was armed after the first.
C21_Witness ==
    /\ AtPc("ping", "PT_idle")
    /\ nFired = 1
    /\ pings = 0
    /\ nTimers = 1
    /\ closed

\* -------------------------------------------------------------- the mutex
\* The labels of the calls of s.mu.Lock(): in write, sendFrame, Disconnect,
\* Close and addPing.
LockLabels == {"W_lock", "SF_lock", "D_lock", "C_lock", "AP_lock"}

\* Goroutine t is at a call of s.mu.Lock().
Waiting(t) == \E pc \in LockLabels : AtPc(t, pc)

\* C22: no goroutine calls Lock() on the session mutex while it holds it
\* (the Disconnect deferred by an overflow included), the mutex is taken
\* only when free, no goroutine panics with it, and no goroutine waits for
\* it for ever.
C22_MutexNeverDeadlocks ==
    /\ [](~panicked)
    /\ [](\A t \in Threads : Waiting(t) => mu # t)
    /\ [][\A t \in Threads :
            (Waiting(t) /\ stack'[t] # stack[t]) => mu = "free"]_vars
    /\ <>[](\A t \in Threads : ~Waiting(t))

\* The Disconnect deferred by an overflow in sendFrame is at its Lock()
\* while another goroutine, inside a write, holds the mutex.
C22_Witness ==
    \E t \in Threads :
        /\ AtPc(t, "D_lock")
        /\ Top(t).reason = "Write failed"
        /\ mu \in Threads \ {t}

=============================================================================
